---- MODULE Spec2Model ----
(***************************************************************************)
(* A model of Hydra (hydra_core.py, hydra_common.py, hydra_net.py): the    *)
(* Graph container, the Publisher/Subscriber contract, the Active Queue    *)
(* Node and the TCP source/sink.  Each component has its own variables and *)
(* its own specification (SpecGraph, SpecPubSub, SpecQueue, SpecTcp); a    *)
(* specification leaves the other components' variables in their initial   *)
(* state.                                                                  *)
(***************************************************************************)
EXTENDS Integers, Sequences, FiniteSets, TLC

(***************************************************************************)
(* The state.                                                              *)
(***************************************************************************)

\* Graph (hydra_core.py)
VARIABLES
    nodes,              \* Graph.nodes: a set of node objects
    executable_nodes,   \* Graph.executable_nodes: a list of node objects
    thread,             \* per node: "created", "running" or "exited"
    stopped,            \* per node: Stoppable.stopped (the Event is set)
    gpc,                \* where the controlling thread is: "idle" or "join"
    stopIter,           \* Graph.stop's local `nodes`: what the iterator has left
    startLog,           \* start() calls of the last execute(), in call order
    stopLog,            \* stop() calls of the last Graph.stop(), in call order
    joinLog,            \* join() calls of the last Graph.stop(), in call order
    gcall,              \* the last call of the Graph API and its result
    ncalls,             \* number of calls of the Graph API so far
    registered          \* history: thread-owning nodes added and not removed
                        \* since, in the order they were added

gvars == <<nodes, executable_nodes, thread, stopped, gpc, stopIter,
           startLog, stopLog, joinLog, gcall, ncalls, registered>>

\* Publisher (hydra_core.py)
VARIABLES
    subscribers,    \* per publisher: Publisher.subscribers, a set
    addCalls,       \* history, per publisher: the arguments of add_subscriber
    notifyLog,      \* every subscriber.notify(publisher, item) call, in call
                    \* order, as <<subscriber, publisher, item>>
    lastPublish,    \* the last notify_all call, as <<publisher, item>>
    npub            \* number of notify_all calls so far

pvars == <<subscribers, addCalls, notifyLog, lastPublish, npub>>

\* ActiveQueueNode (hydra_common.py)
VARIABLES
    queue,          \* ActiveQueueNode.queue (queue.Queue): its content
    aqStopped,      \* ActiveQueueNode.stopped
    aqpc,           \* the node's thread: "created", "loop", "get", "publish",
                    \* "done"
    aqItem,         \* run's local `item`
    aqPublished,    \* the arguments of the node's notify_all calls, in order
    enqLog,         \* history: the items in the order queue.put took them
    prodSent,       \* per producer: how many of its items it has handed in
    aqAtStop        \* history: how many items run() had taken from the
                    \* queue and how many it had published when stop() set
                    \* the flag

qvars == <<queue, aqStopped, aqpc, aqItem, aqPublished, enqLog, prodSent,
           aqAtStop>>

\* TcpSourceSink (hydra_net.py) and its peer
VARIABLES
    is_server,          \* TcpSourceSink.is_server
    keep_header_data,   \* TcpSourceSink.keep_header_data
    tStopped,           \* TcpSourceSink.stopped
    tpc,                \* the node's thread: "created", "init", "accept",
                        \* "connect", "loop", "header", "payload", "recv",
                        \* "publish", "recover", "reaccept", "done", "crashed"
    sock,               \* TcpSourceSink.sock: a socket, or None
    server_sock,        \* TcpSourceSink.server_sock: a socket, or None
    sockState,          \* per socket: "unused", "unconnected", "listening",
                        \* "connected" or "closed"
    nsock,              \* number of sockets created so far
    binds,              \* number of bind() calls so far
    header_bytes,       \* get_next_item's local `header_bytes`
    bytes_to_read,      \* get_next_item's local `bytes_to_read`
    data,               \* get_next_item's local `data` (bytes_read = len(data))
    chunks,             \* history: the recv calls that returned payload bytes
                        \* of the message being read, or read last
    tPublished,         \* the node's notify_all calls, in order, each as
                        \* [conn |-> the connection it was read from, item |-> ..]
    nconn,              \* number of connections established so far
    peer,               \* the remote end of the connection held: "none",
                        \* "open", "closed" (it shut down in order) or
                        \* "reset" (it aborted the connection)
    sent,               \* the bytes the peer has sent on this connection
    nread,              \* how many of them the node has read
    totalSent,          \* bytes the peer has sent on all connections
    npc,                \* a publisher's thread inside notify: "idle", or
                        \* "send" (past the test of self.sock)
    heldAtCheck,        \* whether a connection was held when notify tested
                        \* self.sock
    sendLog,            \* the notify calls that returned or raised, each as
                        \* [held |-> heldAtCheck, result |-> "dropped",
                        \* "sent", "OSError", "ConnectionError" or
                        \* "AttributeError"]
    lastFetch,          \* how the call of get_next_item that run() has just
                        \* made ended: "timeout", "published", "discarded"
                        \* (all three return True), "closed" (returns False)
                        \* or "struct.error"; "none" once run() has gone on
    tnode,              \* the node object: "none" before TcpSourceSink(...)
                        \* is called, "node" when it returned the node,
                        \* "ValueError" when it raised
    tcp_header,         \* the tcp_header argument of TcpSourceSink(...)
    delivery            \* the notify_all of the call of get_next_item that
                        \* run() has just made: [notified |-> how many
                        \* subscribers' notify returned, raised |-> the
                        \* place in the iteration of the subscriber whose
                        \* notify raised ConnectionError, or 0]

tvars == <<is_server, keep_header_data, tStopped, tpc, sock, server_sock,
           sockState, nsock, binds, header_bytes, bytes_to_read, data, chunks,
           tPublished, nconn, peer, sent, nread, totalSent, npc, heldAtCheck,
           sendLog, lastFetch, tnode, tcp_header, delivery>>

\* Source (hydra_core.py): a node with the run() of class Source
VARIABLES
    sStopped,       \* Source.stopped
    spc,            \* the node's thread: "created", "init", "loop", "fetch",
                    \* "done"
    nInit,          \* number of calls of initialize() so far
    nFetch,         \* number of calls of get_next_item() so far
    sResult,        \* what the last call of get_next_item() returned
    sPublished,     \* number of notify_all calls the node has made
    nStop           \* number of calls of stop() so far

svars == <<sStopped, spc, nInit, nFetch, sResult, sPublished, nStop>>

\* A publishing node on its own thread (hydra_core.py): Source.run with a
\* get_next_item that publishes what it fetched; the node is a Publisher
\* of pvars, and notifyLog holds what its subscribers received
VARIABLES
    dpc,            \* the node's thread: "created", "fetch" (run() calls
                    \* get_next_item), "notify" (inside notify_all),
                    \* "dead" (ended by an exception)
    dItem,          \* the item of the notify_all in progress
    dLeft,          \* the subscribers the loop of notify_all has yet to
                    \* yield
    dPublished      \* history: the items of the node's notify_all calls,
                    \* in the order of the calls

dvars == <<dpc, dItem, dLeft, dPublished>>

\* threading.Thread.join
VARIABLES
    joined          \* the thread-owning nodes ("source", "queue", "tcp") on
                    \* which a join() call has returned

vars == <<gvars, pvars, qvars, tvars, svars, dvars, joined>>

\* What the steps of one component leave alone: the other components.
NotGraph == <<pvars, qvars, tvars, svars, dvars, joined>>

NotPub == <<gvars, qvars, tvars, svars, dvars, joined>>

NotQueue == <<gvars, pvars, tvars, svars, dvars, joined>>

NotTcp == <<gvars, pvars, qvars, svars, dvars, joined>>

NotSource == <<gvars, pvars, qvars, tvars, dvars, joined>>

NotDeliver == <<gvars, qvars, tvars, svars, joined>>

(***************************************************************************)
(* Helpers on sequences.                                                   *)
(***************************************************************************)
Range(s) == {s[i] : i \in 1..Len(s)}

Reverse(s) == [i \in 1..Len(s) |-> s[Len(s) + 1 - i]]

Count(s, x) == Cardinality({i \in 1..Len(s) : s[i] = x})

IsPrefix(s, t) == Len(s) <= Len(t) /\ \A i \in 1..Len(s) : s[i] = t[i]

\* list.remove(x): the list without its first occurrence of x.
RECURSIVE RemoveFirst(_, _)
RemoveFirst(s, x) ==
    IF s = <<>> THEN <<>>
    ELSE IF Head(s) = x THEN Tail(s)
    ELSE <<Head(s)>> \o RemoveFirst(Tail(s), x)

(***************************************************************************)
(*                          G R A P H                                      *)
(*                                                                         *)
(* hydra_core.py, class Graph.  The calls of the Graph API are made by one *)
(* controlling thread; the threads of the nodes run beside it.             *)
(***************************************************************************)

\* Bounds of the Graph model.
NumNodes == 5
MaxExec == 3
MaxCalls == 5

\* The node objects that exist.  Two objects may carry the same name, and
\* every fourth object is a node without a thread (a Sink).
Nodes == 1..NumNodes

NameOf(n) == (n + 1) \div 2

IsThread(n) == n % 4 # 0

NoCall == [op |-> "none", node |-> 0, result |-> "ok"]

GraphInit ==
    /\ nodes = {}
    /\ executable_nodes = <<>>
    /\ thread = [n \in Nodes |-> "created"]
    /\ stopped = [n \in Nodes |-> FALSE]
    /\ gpc = "idle"
    /\ stopIter = <<>>
    /\ startLog = <<>>
    /\ stopLog = <<>>
    /\ joinLog = <<>>
    /\ gcall = NoCall
    /\ ncalls = 0
    /\ registered = <<>>

\* Graph.has_node_with_name
has_node_with_name(ns, node_name) == \E n \in ns : NameOf(n) = node_name

\* Graph.add without the test of the name: every node is registered.
GraphAddNoNameCheck(n) ==
    /\ gpc = "idle"
    /\ ncalls < MaxCalls
    /\ Len(executable_nodes) < MaxExec
    /\ ncalls' = ncalls + 1
    /\ nodes' = nodes \cup {n}
    /\ executable_nodes' = IF IsThread(n)
                           THEN Append(executable_nodes, n)
                           ELSE executable_nodes
    /\ registered' = IF IsThread(n) THEN Append(registered, n) ELSE registered
    /\ gcall' = [op |-> "add", node |-> n, result |-> "ok"]
    /\ UNCHANGED <<thread, stopped, gpc, stopIter, startLog, stopLog, joinLog>>
    /\ UNCHANGED NotGraph

\* Graph.add
GraphAdd(n) ==
    /\ gpc = "idle"
    /\ ncalls < MaxCalls
    /\ Len(executable_nodes) < MaxExec
    /\ ncalls' = ncalls + 1
    /\ IF ~has_node_with_name(nodes, NameOf(n))
       THEN /\ nodes' = nodes \cup {n}
            /\ executable_nodes' = IF IsThread(n)
                                   THEN Append(executable_nodes, n)
                                   ELSE executable_nodes
            /\ registered' = IF IsThread(n)
                             THEN Append(registered, n)
                             ELSE registered
            /\ gcall' = [op |-> "add", node |-> n, result |-> "ok"]
       ELSE /\ gcall' = [op |-> "add", node |-> n,
                         result |-> "DuplicateNodeNameError"]
            /\ UNCHANGED <<nodes, executable_nodes, registered>>
    /\ UNCHANGED <<thread, stopped, gpc, stopIter, startLog, stopLog, joinLog>>
    /\ UNCHANGED NotGraph

\* `node is threading.Thread()` in Graph.remove: the identity of the node
\* against a Thread object created on the spot, which is no existing node.
IsNewThreadObject(n) == FALSE

\* Graph.remove
GraphRemove(n) ==
    /\ gpc = "idle"
    /\ ncalls < MaxCalls
    /\ ncalls' = ncalls + 1
    /\ gcall' = [op |-> "remove", node |-> n, result |-> "ok"]
    /\ IF n \in nodes
       THEN /\ executable_nodes' = IF IsNewThreadObject(n)
                                   THEN RemoveFirst(executable_nodes, n)
                                   ELSE executable_nodes
            /\ nodes' = nodes \ {n}
            /\ registered' = RemoveFirst(registered, n)
       ELSE UNCHANGED <<nodes, executable_nodes, registered>>
    /\ UNCHANGED <<thread, stopped, gpc, stopIter, startLog, stopLog, joinLog>>
    /\ UNCHANGED NotGraph

\* Graph.clear
GraphClear ==
    /\ gpc = "idle"
    /\ ncalls < MaxCalls
    /\ ncalls' = ncalls + 1
    /\ gcall' = [op |-> "clear", node |-> 0, result |-> "ok"]
    /\ nodes' = {}
    /\ executable_nodes' = <<>>
    /\ registered' = <<>>
    /\ UNCHANGED <<thread, stopped, gpc, stopIter, startLog, stopLog, joinLog>>
    /\ UNCHANGED NotGraph

\* The loop of Graph.execute over `seq`: node.start() on each node in turn.
\* Thread.start() on a thread that was started before raises RuntimeError,
\* which ends the loop.
RECURSIVE StartEach(_, _, _)
StartEach(seq, th, log) ==
    IF seq = <<>>
    THEN [thread |-> th, log |-> log, result |-> "ok"]
    ELSE LET n == Head(seq) IN
         IF th[n] # "created"
         THEN [thread |-> th, log |-> Append(log, n), result |-> "RuntimeError"]
         ELSE StartEach(Tail(seq), [th EXCEPT ![n] = "running"], Append(log, n))

\* What Graph.execute iterates over.
ExecuteOrder(seq) == seq

\* Graph.execute
GraphExecute ==
    /\ gpc = "idle"
    /\ ncalls < MaxCalls
    /\ ncalls' = ncalls + 1
    /\ LET r == StartEach(ExecuteOrder(executable_nodes), thread, <<>>) IN
         /\ thread' = r.thread
         /\ startLog' = r.log
         /\ gcall' = [op |-> "execute", node |-> 0, result |-> r.result]
    /\ UNCHANGED <<nodes, executable_nodes, stopped, gpc, stopIter, stopLog,
                   joinLog, registered>>
    /\ UNCHANGED NotGraph

\* reversed(self.executable_nodes): an iterator over the list, last first.
StopOrder(seq) == Reverse(seq)

\* Graph.stop, first loop: node.stop() on every node the iterator yields.
\* The loop runs the iterator to its end.
GraphStopRequest ==
    /\ gpc = "idle"
    /\ ncalls < MaxCalls
    /\ ncalls' = ncalls + 1
    /\ LET it == StopOrder(executable_nodes) IN
         /\ stopped' = [n \in Nodes |-> stopped[n] \/ n \in Range(it)]
         /\ stopLog' = it
         /\ stopIter' = <<>>
    /\ joinLog' = <<>>
    /\ gpc' = "join"
    /\ gcall' = [op |-> "stop", node |-> 0, result |-> "running"]
    /\ UNCHANGED <<nodes, executable_nodes, thread, startLog, registered>>
    /\ UNCHANGED NotGraph

\* Graph.stop, second loop: `for node in nodes: node.join()` over the same
\* iterator.  One step joins the next node the iterator yields (join()
\* returns once that thread is not alive; joining a thread that was never
\* started raises RuntimeError); with the iterator at its end, stop() returns.
GraphStopJoin ==
    /\ gpc = "join"
    /\ IF stopIter = <<>>
       THEN /\ gpc' = "idle"
            /\ gcall' = [gcall EXCEPT !.result = "ok"]
            /\ UNCHANGED <<stopIter, joinLog>>
       ELSE LET n == Head(stopIter) IN
            /\ thread[n] # "running"
            /\ stopIter' = Tail(stopIter)
            /\ joinLog' = Append(joinLog, n)
            /\ IF thread[n] = "created"
               THEN /\ gpc' = "idle"
                    /\ gcall' = [gcall EXCEPT !.result = "RuntimeError"]
               ELSE UNCHANGED <<gpc, gcall>>
    /\ UNCHANGED <<nodes, executable_nodes, thread, stopped, startLog, stopLog,
                   ncalls, registered>>
    /\ UNCHANGED NotGraph

\* Source.run of a node of the graph: the thread leaves its loop, and
\* exits, when it finds the stop flag set.
NodeThreadExit(n) ==
    /\ thread[n] = "running"
    /\ stopped[n]
    /\ thread' = [thread EXCEPT ![n] = "exited"]
    /\ UNCHANGED <<nodes, executable_nodes, stopped, gpc, stopIter, startLog,
                   stopLog, joinLog, gcall, ncalls, registered>>
    /\ UNCHANGED NotGraph

GraphNext ==
    \/ \E n \in Nodes : GraphAdd(n)
    \/ \E n \in Nodes : GraphRemove(n)
    \/ GraphClear
    \/ GraphExecute
    \/ GraphStopRequest
    \/ GraphStopJoin
    \/ \E n \in Nodes : NodeThreadExit(n)

(***************************************************************************)
(*               P U B L I S H E R  /  S U B S C R I B E R                 *)
(*                                                                         *)
(* hydra_core.py, class Publisher.  The subscribers here are plain         *)
(* recording subscribers: notify() returns normally.                       *)
(***************************************************************************)

\* Bounds of the Publisher model.
NumPubs == 2
NumSubs == 2
NumItems == 2
MaxAdds == 3
MaxPublish == 1

Pubs == 1..NumPubs
Subs == 1..NumSubs
Items == 1..NumItems

PubInit ==
    /\ subscribers = [p \in Pubs |-> {}]
    /\ addCalls = [p \in Pubs |-> <<>>]
    /\ notifyLog = <<>>
    /\ lastPublish = <<0, 0>>
    /\ npub = 0

TotalAdds == LET RECURSIVE Sum(_)
                 Sum(S) == IF S = {} THEN 0
                           ELSE LET p == CHOOSE x \in S : TRUE
                                IN Len(addCalls[p]) + Sum(S \ {p})
             IN Sum(Pubs)

\* add_subscriber as an assignment: the new subscriber replaces the others.
AddSubscriberReplacing(p, s) ==
    /\ TotalAdds < MaxAdds
    /\ subscribers' = [subscribers EXCEPT ![p] = {s}]
    /\ addCalls' = [addCalls EXCEPT ![p] = Append(@, s)]
    /\ UNCHANGED <<notifyLog, lastPublish, npub>>
    /\ UNCHANGED NotPub

\* Publisher.add_subscriber
AddSubscriber(p, s) ==
    /\ TotalAdds < MaxAdds
    /\ subscribers' = [subscribers EXCEPT ![p] = @ \cup {s}]
    /\ addCalls' = [addCalls EXCEPT ![p] = Append(@, s)]
    /\ UNCHANGED <<notifyLog, lastPublish, npub>>
    /\ UNCHANGED NotPub

\* The orders in which `for subscriber in self.subscribers` may yield the
\* members of the set S: every sequence that holds each member once.
IterationOrders(S) ==
    {o \in [1..Cardinality(S) -> S] : \A x \in S : \E i \in DOMAIN o : o[i] = x}

\* The notify calls of one notify_all: subscriber.notify(self, item) for
\* each subscriber the iteration yields.
NotifyCalls(order, p, item) == [i \in 1..Len(order) |-> <<order[i], p, item>>]

\* Publisher.notify_all
NotifyAll(p, item) ==
    /\ npub < MaxPublish
    /\ npub' = npub + 1
    /\ lastPublish' = <<p, item>>
    /\ \E order \in IterationOrders(subscribers[p]) :
         notifyLog' = notifyLog \o NotifyCalls(order, p, item)
    /\ UNCHANGED <<subscribers, addCalls>>
    /\ UNCHANGED NotPub

PubNext ==
    \/ \E p \in Pubs, s \in Subs : AddSubscriber(p, s)
    \/ \E p \in Pubs, item \in Items : NotifyAll(p, item)

(***************************************************************************)
(*                  A C T I V E   Q U E U E   N O D E                      *)
(*                                                                         *)
(* hydra_common.py, class ActiveQueueNode.  Producer threads call notify;  *)
(* the node's own thread runs run().  Producer p hands in the items        *)
(* <<p, 1>>, <<p, 2>>, ... in this order.                                  *)
(***************************************************************************)

\* Bounds of the Active Queue Node model.
NumProducers == 2
ItemsPerProducer == 2

Producers == 1..NumProducers

NoItem == <<0, 0>>

QueueInit ==
    /\ queue = <<>>
    /\ aqStopped = FALSE
    /\ aqpc = "created"
    /\ aqItem = NoItem
    /\ aqPublished = <<>>
    /\ enqLog = <<>>
    /\ prodSent = [p \in Producers |-> 0]
    /\ aqAtStop = [got |-> 0, published |-> 0]

\* Queue.put on an unbounded queue: the item goes to the tail.
QueuePut(q, item) == Append(q, item)

\* A get that takes the newest item instead of the oldest.
QueueGetNewest(q) == [item |-> q[Len(q)], rest |-> SubSeq(q, 1, Len(q) - 1)]

\* Queue.get on a non-empty queue: the item at the head, which is removed.
QueueGet(q) == [item |-> Head(q), rest |-> Tail(q)]

\* threading.Thread.start on the node
AQStart ==
    /\ aqpc = "created"
    /\ aqpc' = "loop"
    /\ UNCHANGED <<queue, aqStopped, aqItem, aqPublished, enqLog, prodSent,
                   aqAtStop>>
    /\ UNCHANGED NotQueue

\* ActiveQueueNode.notify, called on the thread of producer p
AQNotify(p) ==
    /\ prodSent[p] < ItemsPerProducer
    /\ LET item == <<p, prodSent[p] + 1>> IN
         /\ queue' = QueuePut(queue, item)
         /\ enqLog' = Append(enqLog, item)
    /\ prodSent' = [prodSent EXCEPT ![p] = @ + 1]
    /\ UNCHANGED <<aqStopped, aqpc, aqItem, aqPublished, aqAtStop>>
    /\ UNCHANGED NotQueue

\* How many items run() has taken from the queue so far: the published
\* ones and the one in its local `item` that notify_all is yet to get.
Dequeued == Len(aqPublished) + (IF aqpc = "publish" THEN 1 ELSE 0)

\* Stoppable.stop on the node
AQStop ==
    /\ ~aqStopped
    /\ aqStopped' = TRUE
    /\ aqAtStop' = [got |-> Dequeued, published |-> Len(aqPublished)]
    /\ UNCHANGED <<queue, aqpc, aqItem, aqPublished, enqLog, prodSent>>
    /\ UNCHANGED NotQueue

\* A run() that ends only when the flag is set and the queue is empty.
AQCheckDrained ==
    /\ aqpc = "loop"
    /\ aqpc' = IF aqStopped /\ queue = <<>> THEN "done" ELSE "get"
    /\ UNCHANGED <<queue, aqStopped, aqItem, aqPublished, enqLog, prodSent,
                   aqAtStop>>
    /\ UNCHANGED NotQueue

\* ActiveQueueNode.run: `while not self.stopped.is_set()`
AQCheckStopped ==
    /\ aqpc = "loop"
    /\ aqpc' = IF aqStopped THEN "done" ELSE "get"
    /\ UNCHANGED <<queue, aqStopped, aqItem, aqPublished, enqLog, prodSent,
                   aqAtStop>>
    /\ UNCHANGED NotQueue

\* A get() without a timeout: on an empty queue it waits for an item.
AQGetBlocking ==
    /\ aqpc = "get"
    /\ queue # <<>>
    /\ aqItem' = QueueGet(queue).item
    /\ queue' = QueueGet(queue).rest
    /\ aqpc' = "publish"
    /\ UNCHANGED <<aqStopped, aqPublished, enqLog, prodSent, aqAtStop>>
    /\ UNCHANGED NotQueue

\* ActiveQueueNode.run: `item = self.queue.get(timeout=1.0)`; on an empty
\* queue the wait ends with Empty, which run() passes over.
AQGet ==
    /\ aqpc = "get"
    /\ IF queue # <<>>
       THEN /\ aqItem' = QueueGet(queue).item
            /\ queue' = QueueGet(queue).rest
            /\ aqpc' = "publish"
       ELSE /\ aqpc' = "loop"
            /\ UNCHANGED <<queue, aqItem>>
    /\ UNCHANGED <<aqStopped, aqPublished, enqLog, prodSent, aqAtStop>>
    /\ UNCHANGED NotQueue

\* ActiveQueueNode.run: `self.notify_all(item)`
AQPublish ==
    /\ aqpc = "publish"
    /\ aqPublished' = Append(aqPublished, aqItem)
    /\ aqpc' = "loop"
    /\ UNCHANGED <<queue, aqStopped, aqItem, enqLog, prodSent, aqAtStop>>
    /\ UNCHANGED NotQueue

\* The steps of the node's own thread inside run().
AQThread == AQCheckStopped \/ AQGet \/ AQPublish

QueueNext ==
    \/ AQStart
    \/ \E p \in Producers : AQNotify(p)
    \/ AQStop
    \/ AQCheckStopped
    \/ AQGet
    \/ AQPublish

(***************************************************************************)
(*                    T C P   S O U R C E / S I N K                        *)
(*                                                                         *)
(* hydra_net.py, class TcpSourceSink, with a header strategy like the one  *)
(* of example.py (MyTcpHeader: a header of fixed length whose last byte is *)
(* the length of the payload).  The node's thread runs run(); publishers'  *)
(* threads call notify(); the peer sends bytes, shuts down or resets.      *)
(*                                                                         *)
(* Outcomes of the socket calls that are modelled: accept returns a        *)
(* connection or times out; connect succeeds, times out or is refused;     *)
(* recv returns the bytes that have arrived (at most the number asked      *)
(* for), b'' after an orderly shutdown, times out (timed reads only) or    *)
(* raises ConnectionError after a reset.                                   *)
(***************************************************************************)

\* Bounds of the TCP model.
MaxByte == 2
MaxWire == 4
MaxConns == 2
MaxNotify == 1

\* BaseTcpHeader.header_length, at least 1 (a bound of the model too: the
\* header of example.py has 3 bytes).
HeaderLength == 2

Bytes == 0..MaxByte

None == 0

\* A server creates its listening socket and one socket per connection; a
\* client creates one socket per call of initialize().
Sockets == 1..(MaxConns + 1)

StructError == -1

\* MyTcpHeader.get_message_size: struct.unpack raises struct.error unless
\* it is given a whole header; the length of the payload is the last byte.
get_message_size(hb) ==
    IF Len(hb) = HeaderLength THEN hb[HeaderLength] ELSE StructError

\* The bytes that have arrived and were not read yet.
Arrived == SubSeq(sent, nread + 1, Len(sent))

\* socket.recv(n) with data waiting: the first n bytes of it, or all of it.
Recv(n) == SubSeq(Arrived, 1, IF n < Len(Arrived) THEN n ELSE Len(Arrived))

\* Whether the node holds a connection: self.sock is a connected socket.
ConnectionHeld == sock # None /\ sockState[sock] = "connected"

\* The header strategy of example.py, as a value of the tcp_header argument.
MyTcpHeader == 1

\* How many subscribers the TCP node has.
NumTcpSubs == 2

\* No notify_all was made.
NoDelivery == [notified |-> 0, raised |-> 0]

\* The rest of the state once TcpSourceSink.__init__ has run, and before.
TcpFresh ==
    /\ tStopped = FALSE
    /\ tpc = "created"
    /\ sock = None
    /\ server_sock = None
    /\ sockState = [k \in Sockets |-> "unused"]
    /\ nsock = 0
    /\ binds = 0
    /\ header_bytes = <<>>
    /\ bytes_to_read = 0
    /\ data = <<>>
    /\ chunks = 0
    /\ tPublished = <<>>
    /\ nconn = 0
    /\ peer = "none"
    /\ sent = <<>>
    /\ nread = 0
    /\ totalSent = 0
    /\ npc = "idle"
    /\ heldAtCheck = FALSE
    /\ sendLog = <<>>
    /\ lastFetch = "none"
    /\ delivery = NoDelivery

\* A node that was constructed with a header strategy, in either role.
TcpInit ==
    /\ is_server \in BOOLEAN
    /\ keep_header_data \in BOOLEAN
    /\ tnode = "node"
    /\ tcp_header = MyTcpHeader
    /\ TcpFresh

\* Before TcpSourceSink(...) is called: there is no node.  The attributes
\* have the defaults of the arguments, for want of any value.
TcpUnbuilt ==
    /\ is_server = FALSE
    /\ keep_header_data = TRUE
    /\ tnode = "none"
    /\ tcp_header = None
    /\ TcpFresh

\* A constructor that takes any tcp_header.
ConstructAcceptsNone(hdr) == "node"

\* TcpSourceSink.__init__, lines 77-80: `if tcp_header is None: raise
\* ValueError(...)`; the caller gets the node only when __init__ returns.
ConstructResult(hdr) == IF hdr = None THEN "ValueError" ELSE "node"

\* TcpSourceSink(name, ip_address, port, hdr, srv, keep)
TcpConstruct(hdr, srv, keep) ==
    /\ tnode = "none"
    /\ is_server' = srv
    /\ keep_header_data' = keep
    /\ tcp_header' = hdr
    /\ tnode' = ConstructResult(hdr)
    /\ UNCHANGED <<tStopped, tpc, sock, server_sock, sockState, nsock, binds,
                   header_bytes, bytes_to_read, data, chunks, tPublished, nconn,
                   peer, sent, nread, totalSent, npc, heldAtCheck, sendLog,
                   lastFetch, delivery>>
    /\ UNCHANGED NotTcp

\* threading.Thread.start on the node: run() begins with self.initialize().
TcpStart ==
    /\ tnode = "node"
    /\ tpc = "created"
    /\ tpc' = "init"
    /\ UNCHANGED <<is_server, keep_header_data, tStopped, sock, server_sock,
                   sockState, nsock, binds, header_bytes, bytes_to_read, data,
                   tPublished, nconn, peer, sent, nread, totalSent, npc,
                   heldAtCheck, sendLog>>
    /\ UNCHANGED <<chunks, lastFetch, tnode, tcp_header, delivery,
                 NotTcp>>

\* Stoppable.stop on the node
TcpStop ==
    /\ tnode = "node"
    /\ ~tStopped
    /\ tStopped' = TRUE
    /\ UNCHANGED <<is_server, keep_header_data, tpc, sock, server_sock,
                   sockState, nsock, binds, header_bytes, bytes_to_read, data,
                   tPublished, nconn, peer, sent, nread, totalSent, npc,
                   heldAtCheck, sendLog>>
    /\ UNCHANGED <<chunks, lastFetch, tnode, tcp_header, delivery,
                 NotTcp>>

\* TcpSourceSink.initialize up to its loop: a server creates, binds and
\* listens on server_sock; a client creates the socket it will connect.
TcpInitialize ==
    /\ tpc = "init"
    /\ nsock' = nsock + 1
    /\ IF is_server
       THEN /\ server_sock' = nsock + 1
            /\ sockState' = [sockState EXCEPT ![nsock + 1] = "listening"]
            /\ binds' = binds + 1
            /\ tpc' = "accept"
            /\ sock' = sock
       ELSE /\ sock' = nsock + 1
            /\ sockState' = [sockState EXCEPT ![nsock + 1] = "unconnected"]
            /\ tpc' = "connect"
            /\ UNCHANGED <<server_sock, binds>>
    /\ UNCHANGED <<is_server, keep_header_data, tStopped, header_bytes,
                   bytes_to_read, data, tPublished, nconn, peer, sent, nread,
                   totalSent, npc, heldAtCheck, sendLog>>
    /\ UNCHANGED <<chunks, lastFetch, tnode, tcp_header, delivery,
                 NotTcp>>

\* An accept loop that gives up at the first timeout.
AcceptTurnOnce(after) ==
    IF tStopped
    THEN /\ tpc' = after
         /\ UNCHANGED <<sock, sockState, nsock, nconn, peer, sent, nread>>
    ELSE \/ /\ nconn < MaxConns
            /\ sock' = nsock + 1
            /\ sockState' = [sockState EXCEPT ![nsock + 1] = "connected"]
            /\ nsock' = nsock + 1
            /\ nconn' = nconn + 1
            /\ peer' = "open"
            /\ sent' = <<>>
            /\ nread' = 0
            /\ tpc' = after
         \/ /\ tpc' = after
            /\ UNCHANGED <<sock, sockState, nsock, nconn, peer, sent, nread>>

\* One turn of an accept loop that returns to `after` when it ends:
\* `while not self.stopped.is_set()`, then server_sock.accept(), which
\* returns the socket of a new connection or times out.
AcceptTurn(after) ==
    IF tStopped
    THEN /\ tpc' = after
         /\ UNCHANGED <<sock, sockState, nsock, nconn, peer, sent, nread>>
    ELSE \/ /\ nconn < MaxConns
            /\ sock' = nsock + 1
            /\ sockState' = [sockState EXCEPT ![nsock + 1] = "connected"]
            /\ nsock' = nsock + 1
            /\ nconn' = nconn + 1
            /\ peer' = "open"
            /\ sent' = <<>>
            /\ nread' = 0
            /\ tpc' = after
         \/ UNCHANGED <<tpc, sock, sockState, nsock, nconn, peer, sent, nread>>

\* TcpSourceSink.initialize, server: the accept loop
TcpAccept ==
    /\ tpc = "accept"
    /\ AcceptTurn("loop")
    /\ UNCHANGED <<is_server, keep_header_data, tStopped, server_sock, binds,
                   header_bytes, bytes_to_read, data, tPublished, totalSent,
                   npc, heldAtCheck, sendLog>>
    /\ UNCHANGED <<chunks, lastFetch, tnode, tcp_header, delivery,
                 NotTcp>>

\* TcpSourceSink.initialize, client: the connect loop.  connect() succeeds,
\* or times out or is refused (socket.timeout, OSError: both passed over).
TcpConnect ==
    /\ tpc = "connect"
    /\ IF tStopped
       THEN /\ tpc' = "loop"
            /\ UNCHANGED <<sockState, nconn, peer, sent, nread>>
       ELSE \/ /\ nconn < MaxConns
               /\ sockState' = [sockState EXCEPT ![sock] = "connected"]
               /\ nconn' = nconn + 1
               /\ peer' = "open"
               /\ sent' = <<>>
               /\ nread' = 0
               /\ tpc' = "loop"
            \/ UNCHANGED <<tpc, sockState, nconn, peer, sent, nread>>
    /\ UNCHANGED <<is_server, keep_header_data, tStopped, sock, server_sock,
                   nsock, binds, header_bytes, bytes_to_read, data, tPublished,
                   totalSent, npc, heldAtCheck, sendLog>>
    /\ UNCHANGED <<chunks, lastFetch, tnode, tcp_header, delivery,
                 NotTcp>>

\* A run() whose loop calls get_next_item without a test of the flag.
LoopWithoutTest(flag) == "header"

\* TcpSourceSink.run, line 158: `while not self.stopped.is_set()`; the
\* body begins with the call of get_next_item.
LoopTest(flag) == IF flag THEN "done" ELSE "header"

\* TcpSourceSink.run: `while not self.stopped.is_set()`; the body calls
\* get_next_item.
TcpLoop ==
    /\ tpc = "loop"
    /\ tpc' = LoopTest(tStopped)
    /\ lastFetch' = "none"
    /\ delivery' = NoDelivery
    /\ UNCHANGED <<is_server, keep_header_data, tStopped, sock, server_sock,
                   sockState, nsock, binds, header_bytes, bytes_to_read, data,
                   tPublished, nconn, peer, sent, nread, totalSent, npc,
                   heldAtCheck, sendLog>>
    /\ UNCHANGED <<chunks, tnode, tcp_header, NotTcp>>

\* `self.sock.close(); self.sock = None; return False` of get_next_item:
\* run() goes on at its test of the result.
CloseAndReturnFalse ==
    /\ sockState' = [sockState EXCEPT ![sock] = "closed"]
    /\ sock' = None
    /\ peer' = "none"
    /\ tpc' = "recover"
    /\ lastFetch' = "closed"
    /\ header_bytes' = <<>>
    /\ bytes_to_read' = 0
    /\ data' = <<>>

\* A timeout of the read of the header that is taken for a disconnect.
HeaderTimeoutCloses == CloseAndReturnFalse /\ UNCHANGED <<nread, chunks>>

\* A read of the header that is started again when it times out, with no
\* return to run().
HeaderTimeoutRetries ==
    UNCHANGED <<tpc, lastFetch, sock, sockState, peer, nread, header_bytes,
                bytes_to_read, data, chunks>>

\* get_next_item, lines 149-150: the read of the header timed out,
\* `except socket.timeout: return True`.
HeaderTimeout ==
    /\ tpc' = "loop"
    /\ lastFetch' = "timeout"
    /\ UNCHANGED <<sock, sockState, peer, nread, header_bytes, bytes_to_read,
                   data, chunks>>

\* TcpSourceSink.get_next_item, lines 116-129: the timed read of the header
\* and the call of get_message_size.
TcpRecvHeader ==
    /\ tpc = "header"
    /\ IF peer = "reset"
       THEN CloseAndReturnFalse /\ UNCHANGED <<nread, chunks>>
       ELSE IF Arrived # <<>>
       THEN LET hb == Recv(HeaderLength) IN
            /\ nread' = nread + Len(hb)
            /\ header_bytes' = hb
            /\ data' = <<>>
            /\ chunks' = 0
            /\ IF get_message_size(hb) = StructError
               THEN /\ tpc' = "crashed"
                    /\ bytes_to_read' = 0
                    /\ lastFetch' = "struct.error"
               ELSE /\ tpc' = "payload"
                    /\ bytes_to_read' = get_message_size(hb)
                    /\ UNCHANGED lastFetch
            /\ UNCHANGED <<sock, sockState, peer>>
       ELSE IF peer = "closed"
       THEN CloseAndReturnFalse /\ UNCHANGED <<nread, chunks>>
       ELSE HeaderTimeout
    /\ UNCHANGED <<is_server, keep_header_data, tStopped, server_sock, nsock,
                   binds, tPublished, nconn, sent, totalSent, npc, heldAtCheck,
                   sendLog>>
    /\ UNCHANGED <<tnode, tcp_header, delivery,
                 NotTcp>>

\* A test that takes whatever was read for the whole payload.
AnyLengthComplete(bytes_read, wanted) == TRUE

\* get_next_item, line 140: `if bytes_read == bytes_to_read`
MessageComplete(bytes_read, wanted) == bytes_read = wanted

\* TcpSourceSink.get_next_item, lines 131 and 140: the test of the payload
\* loop and, when the loop ends, the test of bytes_read.
TcpPayloadLoop ==
    /\ tpc = "payload"
    /\ IF Len(data) < bytes_to_read /\ ~tStopped
       THEN /\ tpc' = "recv"
            /\ UNCHANGED <<header_bytes, bytes_to_read, data, lastFetch>>
       ELSE IF MessageComplete(Len(data), bytes_to_read)
       THEN /\ tpc' = "publish"
            /\ UNCHANGED <<header_bytes, bytes_to_read, data, lastFetch>>
       ELSE /\ tpc' = "loop"
            /\ lastFetch' = "discarded"
            /\ header_bytes' = <<>>
            /\ bytes_to_read' = 0
            /\ data' = <<>>
    /\ UNCHANGED <<is_server, keep_header_data, tStopped, sock, server_sock,
                   sockState, nsock, binds, tPublished, nconn, peer, sent,
                   nread, totalSent, npc, heldAtCheck, sendLog>>
    /\ UNCHANGED <<chunks, tnode, tcp_header, delivery,
                 NotTcp>>

\* TcpSourceSink.get_next_item, lines 132-139: the untimed read of payload
\* bytes, which waits until bytes arrive or the peer closes.
TcpRecvPayload ==
    /\ tpc = "recv"
    /\ IF peer = "reset"
       THEN CloseAndReturnFalse /\ UNCHANGED <<nread, chunks>>
       ELSE IF Arrived # <<>>
       THEN LET tmp_data == Recv(bytes_to_read - Len(data)) IN
            /\ nread' = nread + Len(tmp_data)
            /\ data' = data \o tmp_data
            /\ chunks' = chunks + 1
            /\ tpc' = "payload"
            /\ UNCHANGED <<sock, sockState, peer, header_bytes, bytes_to_read,
                           lastFetch>>
       ELSE /\ peer = "closed"
            /\ CloseAndReturnFalse
            /\ UNCHANGED <<nread, chunks>>
    /\ UNCHANGED <<is_server, keep_header_data, tStopped, server_sock, nsock,
                   binds, tPublished, nconn, sent, totalSent, npc, heldAtCheck,
                   sendLog>>
    /\ UNCHANGED <<tnode, tcp_header, delivery,
                 NotTcp>>

\* An item that carries the header whatever keep_header_data says.
ItemWithHeader(hb, d, keep) == hb \o d

\* The item of a complete message: lines 141-143.
Item(hb, d, keep) == IF keep THEN hb \o d ELSE d

\* TcpSourceSink.get_next_item, lines 141-148: notify_all of the item, and
\* `return True`.
TcpPublish ==
    /\ tpc = "publish"
    /\ tPublished' = Append(tPublished,
                            [conn |-> nconn,
                             item |-> Item(header_bytes, data, keep_header_data)])
    /\ tpc' = "loop"
    /\ lastFetch' = "published"
    /\ delivery' = [notified |-> NumTcpSubs, raised |-> 0]
    /\ header_bytes' = <<>>
    /\ bytes_to_read' = 0
    /\ data' = <<>>
    /\ UNCHANGED <<is_server, keep_header_data, tStopped, sock, server_sock,
                   sockState, nsock, binds, nconn, peer, sent, nread, totalSent,
                   npc, heldAtCheck, sendLog>>
    /\ UNCHANGED <<chunks, tnode, tcp_header, NotTcp>>

\* A get_next_item whose try block ends before notify_all: the exception
\* of a subscriber leaves get_next_item and run(), and the thread ends.
SubscriberErrorEscapes ==
    /\ tpc' = "crashed"
    /\ lastFetch' = "ConnectionError"
    /\ UNCHANGED <<sock, sockState, peer, header_bytes, bytes_to_read, data>>

\* get_next_item, lines 151-154: notify_all is called inside the try
\* block, so `except ConnectionError` takes the exception of a subscriber
\* as it takes that of recv.
SubscriberErrorCaught == CloseAndReturnFalse

\* get_next_item, line 146, with a subscriber whose notify raises
\* ConnectionError (as the notify of a TCP node does when its send fails):
\* notify_all was called with the item, the notify of the subscribers the
\* iteration yielded before that one returned, and the exception ends the
\* loop of notify_all.
TcpPublishRaises ==
    /\ tpc = "publish"
    /\ tPublished' = Append(tPublished,
                            [conn |-> nconn,
                             item |-> Item(header_bytes, data, keep_header_data)])
    /\ \E j \in 1..NumTcpSubs :
         delivery' = [notified |-> j - 1, raised |-> j]
    /\ SubscriberErrorCaught
    /\ UNCHANGED <<is_server, keep_header_data, tStopped, server_sock, nsock,
                   binds, nconn, sent, nread, totalSent, npc, heldAtCheck,
                   sendLog>>
    /\ UNCHANGED <<chunks, tnode, tcp_header, NotTcp>>

\* A run() that ends when get_next_item returns False.
TcpTerminateOnDisconnect ==
    /\ tpc = "recover"
    /\ tpc' = "done"
    /\ UNCHANGED <<is_server, keep_header_data, tStopped, sock, server_sock,
                   sockState, nsock, binds, header_bytes, bytes_to_read, data,
                   tPublished, nconn, peer, sent, nread, totalSent, npc,
                   heldAtCheck, sendLog>>
    /\ UNCHANGED <<chunks, lastFetch, tnode, tcp_header, delivery,
                 NotTcp>>

\* TcpSourceSink.run, lines 159-162: get_next_item returned False; a client
\* calls initialize() again, a server enters the accept loop of run().
TcpRecover ==
    /\ tpc = "recover"
    /\ tpc' = IF ~is_server THEN "init" ELSE "reaccept"
    /\ lastFetch' = "none"
    /\ delivery' = NoDelivery
    /\ UNCHANGED <<is_server, keep_header_data, tStopped, sock, server_sock,
                   sockState, nsock, binds, header_bytes, bytes_to_read, data,
                   tPublished, nconn, peer, sent, nread, totalSent, npc,
                   heldAtCheck, sendLog>>
    /\ UNCHANGED <<chunks, tnode, tcp_header, NotTcp>>

\* TcpSourceSink.run, lines 163-170: the accept loop after a disconnect
TcpReaccept ==
    /\ tpc = "reaccept"
    /\ AcceptTurn("loop")
    /\ UNCHANGED <<is_server, keep_header_data, tStopped, server_sock, binds,
                   header_bytes, bytes_to_read, data, tPublished, totalSent,
                   npc, heldAtCheck, sendLog>>
    /\ UNCHANGED <<chunks, lastFetch, tnode, tcp_header, delivery,
                 NotTcp>>

\* The peer sends one more byte on the connection.
PeerSend(b) ==
    /\ peer = "open"
    /\ totalSent < MaxWire
    /\ sent' = Append(sent, b)
    /\ totalSent' = totalSent + 1
    /\ UNCHANGED <<is_server, keep_header_data, tStopped, tpc, sock,
                   server_sock, sockState, nsock, binds, header_bytes,
                   bytes_to_read, data, tPublished, nconn, peer, nread, npc,
                   heldAtCheck, sendLog>>
    /\ UNCHANGED <<chunks, lastFetch, tnode, tcp_header, delivery,
                 NotTcp>>

\* The peer shuts the connection down (how = "closed") or aborts it
\* (how = "reset").
PeerDisconnect(how) ==
    /\ peer = "open"
    /\ peer' = how
    /\ UNCHANGED <<is_server, keep_header_data, tStopped, tpc, sock,
                   server_sock, sockState, nsock, binds, header_bytes,
                   bytes_to_read, data, tPublished, nconn, sent, nread,
                   totalSent, npc, heldAtCheck, sendLog>>
    /\ UNCHANGED <<chunks, lastFetch, tnode, tcp_header, delivery,
                 NotTcp>>

\* The test of TcpSourceSink.notify: `if not self.sock is None`.
NotifyFindsSocket == sock # None

\* TcpSourceSink.notify, line 173, on a publisher's thread: with no socket
\* the call returns and the item is dropped.
TcpNotifyCheck ==
    /\ tnode = "node"
    /\ npc = "idle"
    /\ Len(sendLog) < MaxNotify
    /\ IF NotifyFindsSocket
       THEN /\ npc' = "send"
            /\ heldAtCheck' = ConnectionHeld
            /\ UNCHANGED sendLog
       ELSE /\ sendLog' = Append(sendLog, [held |-> FALSE, result |-> "dropped"])
            /\ UNCHANGED <<npc, heldAtCheck>>
    /\ UNCHANGED <<is_server, keep_header_data, tStopped, tpc, sock,
                   server_sock, sockState, nsock, binds, header_bytes,
                   bytes_to_read, data, tPublished, nconn, peer, sent, nread,
                   totalSent>>
    /\ UNCHANGED <<chunks, lastFetch, tnode, tcp_header, delivery,
                 NotTcp>>

\* A send that lets the item go when self.sock is None by now.
SendResultsChecked ==
    IF sock = None THEN {"dropped"}
    ELSE IF sockState[sock] # "connected" THEN {"OSError"}
    ELSE IF peer = "open" THEN {"sent"}
    ELSE {"sent", "ConnectionError"}

\* What self.sock.send(item) does, by what self.sock is at that moment:
\* None has no send (AttributeError); a socket that was never connected
\* raises OSError; on a connection the peer has left, the write is taken or
\* raises ConnectionError.
SendResults ==
    IF sock = None THEN {"AttributeError"}
    ELSE IF sockState[sock] # "connected" THEN {"OSError"}
    ELSE IF peer = "open" THEN {"sent"}
    ELSE {"sent", "ConnectionError"}

\* TcpSourceSink.notify, line 175: `self.sock.send(item)`
TcpNotifySend ==
    /\ npc = "send"
    /\ \E r \in SendResults :
         sendLog' = Append(sendLog, [held |-> heldAtCheck, result |-> r])
    /\ npc' = "idle"
    /\ UNCHANGED <<is_server, keep_header_data, tStopped, tpc, sock,
                   server_sock, sockState, nsock, binds, header_bytes,
                   bytes_to_read, data, tPublished, nconn, peer, sent, nread,
                   totalSent, heldAtCheck>>
    /\ UNCHANGED <<chunks, lastFetch, tnode, tcp_header, delivery,
                 NotTcp>>

\* The steps of the node's own thread inside run().
TcpThread ==
    \/ TcpInitialize
    \/ TcpAccept
    \/ TcpConnect
    \/ TcpLoop
    \/ TcpRecvHeader
    \/ TcpPayloadLoop
    \/ TcpRecvPayload
    \/ TcpPublish
    \/ TcpRecover
    \/ TcpReaccept

\* A peer whose messages are empty or of one byte: the node's thread reads
\* the length of a message from its header and never looks at a byte of
\* the payload, so the steps it takes are those of any peer.
ShortMessagePeer == \E b \in {0, 1} : PeerSend(b)

\* The receive path with that peer.
TcpShortNext ==
    \/ TcpStart
    \/ TcpStop
    \/ TcpThread
    \/ ShortMessagePeer
    \/ \E how \in {"closed", "reset"} : PeerDisconnect(how)

\* The node's thread, stop() and the peer: the receive path.
TcpNext ==
    \/ TcpStart
    \/ TcpStop
    \/ TcpInitialize
    \/ TcpAccept
    \/ TcpConnect
    \/ TcpLoop
    \/ TcpRecvHeader
    \/ TcpPayloadLoop
    \/ TcpRecvPayload
    \/ TcpPublish
    \/ TcpRecover
    \/ TcpReaccept
    \/ \E b \in Bytes : PeerSend(b)
    \/ \E how \in {"closed", "reset"} : PeerDisconnect(how)

\* The receive path with subscribers whose notify may raise
\* ConnectionError.
TcpDeliverNext ==
    \/ TcpNext
    \/ TcpPublishRaises

\* The send path: notify() on a publisher's thread beside the node's
\* thread, stop() and a peer that connects and disconnects but sends no
\* bytes (so the node's thread never gets past the read of a header).
TcpSendNext ==
    \/ TcpStart
    \/ TcpStop
    \/ TcpInitialize
    \/ TcpAccept
    \/ TcpConnect
    \/ TcpLoop
    \/ TcpRecvHeader
    \/ TcpRecover
    \/ TcpReaccept
    \/ \E how \in {"closed", "reset"} : PeerDisconnect(how)
    \/ TcpNotifyCheck
    \/ TcpNotifySend

\* The life of a TCP node from the call of its constructor: the send path
\* with the construction before it.
TcpConstructNext ==
    \/ \E hdr \in {None, MyTcpHeader}, srv \in BOOLEAN, keep \in BOOLEAN :
          TcpConstruct(hdr, srv, keep)
    \/ TcpStart
    \/ TcpStop
    \/ TcpInitialize
    \/ TcpAccept
    \/ TcpConnect
    \/ TcpLoop
    \/ TcpRecvHeader
    \/ TcpRecover
    \/ TcpReaccept
    \/ \E how \in {"closed", "reset"} : PeerDisconnect(how)
    \/ TcpNotifyCheck
    \/ TcpNotifySend

(***************************************************************************)
(*                           S O U R C E                                   *)
(*                                                                         *)
(* hydra_core.py, class Source: the run() that Source gives its            *)
(* subclasses.  initialize() and get_next_item() are the hooks of a        *)
(* subclass; here they return (they raise nothing), get_next_item returns  *)
(* True or False and may call notify_all once before it returns.           *)
(***************************************************************************)

\* Bounds of the Source model.
MaxFetch == 3
MaxStops == 2

SourceInit ==
    /\ sStopped = FALSE
    /\ spc = "created"
    /\ nInit = 0
    /\ nFetch = 0
    /\ sResult = TRUE
    /\ sPublished = 0
    /\ nStop = 0

\* threading.Thread.start on the node: the thread begins run().
SourceStart ==
    /\ spc = "created"
    /\ spc' = "init"
    /\ UNCHANGED <<sStopped, nInit, nFetch, sResult, sPublished, nStop>>
    /\ UNCHANGED NotSource

\* Source.run, line 258: `self.initialize()`
SourceInitialize ==
    /\ spc = "init"
    /\ nInit' = nInit + 1
    /\ spc' = "loop"
    /\ UNCHANGED <<sStopped, nFetch, sResult, sPublished, nStop>>
    /\ UNCHANGED NotSource

\* Source.run, line 259: `while not self.stopped.is_set()`
SourceLoop ==
    /\ spc = "loop"
    /\ IF sStopped
       THEN spc' = "done"
       ELSE nFetch < MaxFetch /\ spc' = "fetch"
    /\ UNCHANGED <<sStopped, nInit, nFetch, sResult, sPublished, nStop>>
    /\ UNCHANGED NotSource

\* A run() that goes on with its loop whatever get_next_item returns.
AfterFetchIgnoresResult(result) == "loop"

\* Where run() goes on after get_next_item has returned `result`: line 260,
\* `if not self.get_next_item(): break`.
AfterFetch(result) == IF result THEN "loop" ELSE "done"

\* Source.run, line 260: one call of get_next_item(), which publishes
\* `items` items (0 or 1) and returns `result`.
SourceFetch(result, items) ==
    /\ spc = "fetch"
    /\ nFetch' = nFetch + 1
    /\ sPublished' = sPublished + items
    /\ sResult' = result
    /\ spc' = AfterFetch(result)
    /\ UNCHANGED <<sStopped, nInit, nStop>>
    /\ UNCHANGED NotSource

\* A stop() that flips the flag.
StopToggles(flag) == ~flag

\* What Stoppable.stop makes of the flag: `self.stopped.set()`.
StopFlag(flag) == TRUE

\* Stoppable.stop on the node, from any thread and in any state of the node
SourceStop ==
    /\ nStop < MaxStops
    /\ nStop' = nStop + 1
    /\ sStopped' = StopFlag(sStopped)
    /\ UNCHANGED <<spc, nInit, nFetch, sResult, sPublished>>
    /\ UNCHANGED NotSource

SourceNext ==
    \/ SourceStart
    \/ SourceInitialize
    \/ SourceLoop
    \/ \E result \in BOOLEAN, items \in {0, 1} : SourceFetch(result, items)
    \/ SourceStop

(***************************************************************************)
(* A publishing node: the thread of a Source whose get_next_item publishes *)
(* the item it fetched, with the loop of notify_all taken a subscriber at  *)
(* a time.  The k-th item the node fetches is the number k.                *)
(***************************************************************************)

MaxDeliver == 2

\* The publishing node among the publishers.
TheNode == 1

DeliverInit ==
    /\ dpc = "created"
    /\ dItem = 0
    /\ dLeft = {}
    /\ dPublished = <<>>

\* The wiring of the graph: add_subscriber on the node before it is
\* started.
DeliverWire ==
    /\ dpc = "created"
    /\ \E s \in Subs : AddSubscriber(TheNode, s)

\* Thread.start() and the entry of run().
DeliverStart ==
    /\ dpc = "created"
    /\ dpc' = "fetch"
    /\ UNCHANGED <<dItem, dLeft, dPublished, pvars, NotDeliver>>

\* run() calls get_next_item, which has its next item and calls
\* notify_all(item): the loop over self.subscribers begins.
DeliverFetch ==
    /\ dpc = "fetch"
    /\ Len(dPublished) < MaxDeliver
    /\ dItem' = Len(dPublished) + 1
    /\ dPublished' = Append(dPublished, dItem')
    /\ dLeft' = subscribers[TheNode]
    /\ lastPublish' = <<TheNode, dItem'>>
    /\ npub' = npub + 1
    /\ dpc' = "notify"
    /\ UNCHANGED <<subscribers, addCalls, notifyLog, NotDeliver>>

\* One turn of the loop of notify_all: subscriber.notify(self, item), on
\* the node's thread, for a subscriber the iteration had not yielded.
DeliverNotify ==
    /\ dpc = "notify"
    /\ \E s \in dLeft :
         /\ notifyLog' = Append(notifyLog, <<s, TheNode, dItem>>)
         /\ dLeft' = dLeft \ {s}
    /\ UNCHANGED <<dpc, dItem, dPublished, subscribers, addCalls,
                   lastPublish, npub, NotDeliver>>

\* A subscriber's notify raises: nothing between it and the top of run()
\* catches, so the exception ends the node's thread.
DeliverRaise ==
    /\ dpc = "notify"
    /\ dLeft # {}
    /\ dpc' = "dead"
    /\ UNCHANGED <<dItem, dLeft, dPublished, pvars, NotDeliver>>

\* A notify_all that returns at once and leaves the delivery behind.
ReturnsAtOnce(left) == TRUE

\* The loop of notify_all ends when the iteration has yielded every
\* subscriber.
LoopEnded(left) == left = {}

\* notify_all returns, get_next_item returns True and the test of run()'s
\* loop passes: the node goes on to its next call of get_next_item.
DeliverReturn ==
    /\ dpc = "notify"
    /\ LoopEnded(dLeft)
    /\ dpc' = "fetch"
    /\ UNCHANGED <<dItem, dLeft, dPublished, pvars, NotDeliver>>

DeliverNext ==
    \/ DeliverWire
    \/ DeliverStart
    \/ DeliverFetch
    \/ DeliverNotify
    \/ DeliverRaise
    \/ DeliverReturn

(***************************************************************************)
(*            T H R E A D - O W N I N G   N O D E S                        *)
(*                                                                         *)
(* Source, ActiveQueueNode and TcpSourceSink are threading.Thread objects  *)
(* with a stop flag.  The three share no state, so a behaviour of          *)
(* NodeNext runs one of them, whichever takes the first step, and joins    *)
(* it.                                                                     *)
(***************************************************************************)
NodeKinds == {"source", "queue", "tcp"}

\* A join() that returns as soon as stop was requested on the node.
StopRequested(k) ==
    CASE k = "source" -> sStopped /\ spc # "created"
      [] k = "queue"  -> aqStopped /\ aqpc # "created"
      [] k = "tcp"    -> tStopped /\ tpc # "created"

\* The thread of node k was started and is not alive any more: run() has
\* returned, or has ended with an exception.  This is what join() waits for.
Finished(k) ==
    CASE k = "source" -> spc = "done"
      [] k = "queue"  -> aqpc = "done"
      [] k = "tcp"    -> tpc \in {"done", "crashed"}

\* node.join() returns (to the caller of Graph.stop, line 183, or to any
\* other thread that called it).
Join(k) ==
    /\ Finished(k)
    /\ k \notin joined
    /\ joined' = joined \cup {k}
    /\ UNCHANGED <<gvars, pvars, qvars, tvars, svars, dvars>>

\* Nothing was done with the node yet.
SourceIdle == spc = "created" /\ nStop = 0

QueueIdle == aqpc = "created" /\ ~aqStopped /\ enqLog = <<>>

TcpIdle == tpc = "created" /\ ~tStopped

SourceNode == QueueIdle /\ TcpIdle /\ SourceNext

QueueNode == SourceIdle /\ TcpIdle /\ QueueNext

TcpNode == SourceIdle /\ QueueIdle /\ TcpNext

NodeNext ==
    \/ SourceNode
    \/ QueueNode
    \/ TcpNode
    \/ \E k \in NodeKinds : Join(k)

(***************************************************************************)
(* The specifications.                                                     *)
(***************************************************************************)
Init ==
    /\ GraphInit /\ PubInit /\ QueueInit /\ TcpInit /\ SourceInit
    /\ DeliverInit
    /\ joined = {}

SpecGraph == Init /\ [][GraphNext]_vars

SpecPubSub == Init /\ [][PubNext]_vars

SpecQueue == Init /\ [][QueueNext]_vars

SpecTcp == Init /\ [][TcpNext]_vars

SpecTcpSend == Init /\ [][TcpSendNext]_vars

SpecTcpDeliver == Init /\ [][TcpDeliverNext]_vars

\* The receive path with a thread that keeps being scheduled: the step of
\* run() that can be taken is taken in the end.  A timed call (accept,
\* connect, the read of the header) can always be taken, as it times out;
\* the untimed read of the payload can be taken only when bytes have
\* arrived or the peer has left.  Nothing is assumed of the peer.
SpecTcpLive ==
    /\ Init
    /\ [][TcpShortNext]_vars
    /\ WF_vars(TcpThread)

SpecNode == Init /\ [][NodeNext]_vars

\* The state before the TCP node is constructed.
InitUnbuilt ==
    /\ GraphInit /\ PubInit /\ QueueInit /\ TcpUnbuilt /\ SourceInit
    /\ DeliverInit
    /\ joined = {}

\* The Active Queue Node (in a process without a TCP node) with a thread
\* that keeps being scheduled: the step of run() that can be taken is taken
\* in the end (the test of the flag; get(), which returns within its
\* timeout; notify_all, as the subscribers return).
SpecQueueLive ==
    /\ InitUnbuilt
    /\ [][QueueNext]_vars
    /\ WF_vars(AQThread)

SpecTcpConstruct == InitUnbuilt /\ [][TcpConstructNext]_vars

\* A publishing node and its subscribers, in a process of their own.
SpecDeliver == InitUnbuilt /\ [][DeliverNext]_vars

(***************************************************************************)
(* Claims about the Graph, checked under SpecGraph.                        *)
(***************************************************************************)

\* C1: when Graph.stop() returns on a graph whose executable nodes were all
\* started, every executable node has been joined, in reverse registration
\* order, and the thread of every executable node has exited.
C1_StopJoinsEveryNode ==
    (/\ gcall.op = "stop"
     /\ gcall.result = "ok"
     /\ gpc = "idle"
     /\ \A n \in Range(executable_nodes) : thread[n] # "created")
    => /\ joinLog = Reverse(executable_nodes)
       /\ \A n \in Range(executable_nodes) : thread[n] = "exited"

\* C2: Graph.stop() requests stop on every executable node exactly once, in
\* the reverse of the order in which the nodes were added.
C2_StopRequestsEachNodeOnce ==
    gcall.op = "stop"
    => /\ stopLog = Reverse(executable_nodes)
       /\ \A n \in Range(executable_nodes) : Count(stopLog, n) = 1

\* C3: Graph.add(node) with a name that a node of the graph already has
\* fails with DuplicateNodeNameError and changes neither the node set nor
\* the executable sequence; with a new name it adds the node to the node
\* set and appends it to the executable sequence iff it owns a thread.
C3_AddContract ==
    [][(gcall'.op = "add" /\ ncalls' = ncalls + 1)
       => LET n == gcall'.node IN
          IF \E m \in nodes : NameOf(m) = NameOf(n)
          THEN /\ gcall'.result = "DuplicateNodeNameError"
               /\ nodes' = nodes
               /\ executable_nodes' = executable_nodes
          ELSE /\ gcall'.result = "ok"
               /\ nodes' = nodes \cup {n}
               /\ executable_nodes' = IF IsThread(n)
                                      THEN executable_nodes \o <<n>>
                                      ELSE executable_nodes]_vars

\* C3 witness: an add of a second node object with a name the graph holds
\* has failed, and the graph holds nodes.
C3_Witness ==
    /\ gcall.op = "add"
    /\ gcall.result = "DuplicateNodeNameError"
    /\ gcall.node \notin nodes
    /\ \E m \in nodes : NameOf(m) = NameOf(gcall.node)
    /\ executable_nodes # <<>>

\* C4: Graph.execute(), called while no executable node has been started,
\* starts every executable node exactly once, in the order in which the
\* nodes were added, and starts no node that does not own a thread.
C4_ExecuteStartsEachNodeOnce ==
    [][(/\ gcall'.op = "execute"
        /\ ncalls' = ncalls + 1
        /\ \A n \in Range(executable_nodes) : thread[n] = "created")
       => /\ gcall'.result = "ok"
          /\ startLog' = executable_nodes
          /\ \A n \in Range(executable_nodes) :
                Count(startLog', n) = 1 /\ thread'[n] = "running"
          /\ \A n \in Range(startLog') : IsThread(n)]_vars

(***************************************************************************)
(* Claims about the Publisher, checked under SpecPubSub.                   *)
(***************************************************************************)

\* The notify calls that the last step appended to the log.
NewNotifies == SubSeq(notifyLog', Len(notifyLog) + 1, Len(notifyLog'))

\* C5: after any sequence of add_subscriber calls on a publisher that names
\* N distinct subscribers, one notify_all(item) calls notify exactly once on
\* each of the N, with the publisher and the item as arguments, and makes
\* no other notify call.
C5_PublishReachesEachSubscriberOnce ==
    [][npub' = npub + 1
       => LET p == lastPublish'[1]
              item == lastPublish'[2]
              named == Range(addCalls[p])
          IN /\ Len(NewNotifies) = Cardinality(named)
             /\ \A s \in named : Count(NewNotifies, <<s, p, item>>) = 1]_vars

\* C5 witness: a publish has reached two subscribers of a publisher whose
\* add_subscriber calls named one of them more than once.
C5_Witness ==
    /\ npub >= 1
    /\ LET p == lastPublish[1] IN
         /\ Cardinality(Range(addCalls[p])) = 2
         /\ Len(addCalls[p]) > 2
         /\ Cardinality({i \in 1..Len(notifyLog) : notifyLog[i][2] = p}) >= 2

(***************************************************************************)
(* Claims about the Active Queue Node, checked under SpecQueue.            *)
(***************************************************************************)

\* The items of producer p in seq, in the order they have in seq.
OfProducer(seq, p) == SelectSeq(seq, LAMBDA it : it[1] = p)

\* C6: the sequence of items the node has published is at every moment a
\* prefix of the order in which the items were enqueued, so the items of
\* each producer are published in that producer's own order, none twice.
C6_PublishedIsPrefixOfEnqueued ==
    /\ IsPrefix(aqPublished, enqLog)
    /\ \A p \in Producers :
         OfProducer(aqPublished, p)
           = [k \in 1..Len(OfProducer(aqPublished, p)) |-> <<p, k>>]

\* C6 witness: items of two producers, enqueued interleaved, have all been
\* published.
C6_Witness ==
    /\ Len(aqPublished) = NumProducers * ItemsPerProducer
    /\ enqLog[1][1] # enqLog[2][1]

(***************************************************************************)
(* Claims about the TCP node's send path, checked under SpecTcpSend.       *)
(***************************************************************************)

\* C7: a notify call made while the node holds no connection drops the
\* item: it attempts no write and raises no error.
C7_NotifyDropsWithoutConnection ==
    \A i \in 1..Len(sendLog) :
        ~sendLog[i].held => sendLog[i].result = "dropped"

(***************************************************************************)
(* Claims about the TCP node's receive path, checked under SpecTcp.        *)
(***************************************************************************)

\* C8: when the node's thread has left its run loop, no socket the node
\* created for a connection (accepted, or created to connect) is open.
C8_ConnectionsClosedAtExit ==
    tpc = "done"
    => \A k \in Sockets : sockState[k] \notin {"connected", "unconnected"}

IsOneMessage(st) ==
    /\ Len(st) >= HeaderLength
    /\ Len(st) = HeaderLength + st[HeaderLength]

\* The item the message st is to be published as.
ExpectedItem(st) ==
    IF keep_header_data THEN st ELSE SubSeq(st, HeaderLength + 1, Len(st))

\* The items published from connection c, in order.
PublishedOn(c) ==
    LET sel == SelectSeq(tPublished, LAMBDA r : r.conn = c)
    IN [i \in 1..Len(sel) |-> sel[i].item]

\* C10: when the peer has sent one whole message on a connection and the
\* node has read all of it, in whatever chunks, and is through with its
\* fetch step, the node has published exactly one item from the connection:
\* header and payload with keep_header_data, the payload alone without.
C10_OneMessageOneItem ==
    (/\ IsOneMessage(sent)
     /\ nread = Len(sent)
     /\ tpc \notin {"payload", "recv", "publish"})
    => PublishedOn(nconn) = <<ExpectedItem(sent)>>

\* C10 witness: a message with a payload of two bytes, read in two chunks,
\* has been published.
C10_Witness ==
    /\ IsOneMessage(sent)
    /\ Len(sent) = HeaderLength + 2
    /\ nread = Len(sent)
    /\ chunks = 2
    /\ tpc = "loop"
    /\ PublishedOn(nconn) = <<ExpectedItem(sent)>>

(***************************************************************************)
(* Claims about the thread-owning nodes, checked under SpecNode.           *)
(***************************************************************************)

\* C11: once join() on a thread-owning node (Source, Active Queue Node, TCP
\* node) has returned, the node makes no notify_all call any more.
C11_NoPublishAfterJoin ==
    [][/\ "source" \in joined => sPublished' = sPublished
       /\ "queue" \in joined => aqPublished' = aqPublished
       /\ "tcp" \in joined => tPublished' = tPublished]_vars

\* C11 witness: join() has returned on an Active Queue Node that has
\* published items and whose queue still holds items.
C11_Witness ==
    /\ "queue" \in joined
    /\ aqPublished # <<>>
    /\ queue # <<>>

\* C12: stop() only sets the stop flag.  Every call is possible in every
\* state of the node and returns with the flag set and nothing else
\* changed; a call on a node whose flag is set changes nothing; and no
\* step of any node clears a flag that is set.
C12_StopIdempotent ==
    /\ [](nStop < MaxStops => ENABLED SourceStop)
    /\ [][/\ nStop' = nStop + 1
             => /\ sStopped'
                /\ UNCHANGED <<spc, nInit, nFetch, sResult, sPublished>>
                /\ sStopped => UNCHANGED sStopped
          /\ sStopped => sStopped'
          /\ aqStopped => aqStopped'
          /\ tStopped => tStopped']_vars

\* C12 witness: stop() was called twice on a node whose thread is in a
\* fetch step.
C12_Witness ==
    /\ nStop = 2
    /\ sStopped
    /\ spc = "fetch"

\* C13: the thread of a started Source calls initialize() exactly once,
\* before any get_next_item(); from the test of its loop it goes to a
\* fetch when the flag is clear and exits when the flag is set; after a
\* fetch it exits when the fetch returned False and goes back to the test
\* when it returned True; it exits in no other way and, once it has exited,
\* calls nothing.
C13_SourceRunLoop ==
    [][/\ nInit' # nInit => (spc = "init" /\ nInit = 0 /\ nFetch = 0)
       /\ (spc = "init" /\ spc' # spc) => (nInit' = 1 /\ spc' = "loop")
       /\ nFetch' # nFetch
            => (spc = "fetch" /\ nInit = 1 /\ nFetch' = nFetch + 1)
       /\ (spc = "loop" /\ spc' # spc)
            => spc' = IF sStopped THEN "done" ELSE "fetch"
       /\ (spc = "fetch" /\ spc' # spc)
            => spc' = IF sResult' THEN "loop" ELSE "done"
       /\ spc = "done"
            => UNCHANGED <<spc, nInit, nFetch, sResult, sPublished>>]_vars

\* C13 witness: the thread has exited, with the stop flag clear, after its
\* second fetch returned False.
C13_Witness ==
    /\ spc = "done"
    /\ ~sStopped
    /\ nInit = 1
    /\ nFetch = 2
    /\ ~sResult

(***************************************************************************)
(* Claims about the construction of the TCP node, checked under            *)
(* SpecTcpConstruct.                                                       *)
(***************************************************************************)

\* C14: TcpSourceSink(...) with tcp_header None raises ValueError, and with
\* a header strategy returns the node; after the ValueError there is no
\* node, so nothing is ever started, stopped or sent on.
C14_NoNodeWithoutHeader ==
    [][/\ (tnode = "none" /\ tnode' # "none")
            => (tnode' = IF tcp_header' = None THEN "ValueError" ELSE "node")
       /\ tnode # "none" => UNCHANGED <<tnode, tcp_header>>
       /\ tnode # "node"
            => UNCHANGED <<tStopped, tpc, sock, server_sock, sockState, nsock,
                           npc, sendLog>>]_vars

\* C14 witness: a construction as a server with no header strategy has
\* raised ValueError.
C14_Witness ==
    /\ tnode = "ValueError"
    /\ tcp_header = None
    /\ is_server
    /\ tpc = "created"

(***************************************************************************)
(* More claims about the TCP node's receive path, checked under SpecTcp.   *)
(***************************************************************************)

\* C15: a read of the header that returns fewer than HeaderLength bytes,
\* none or some, because the peer has left or the bytes come in pieces, is
\* taken for a disconnect: the socket is closed, get_next_item returns
\* False (so that get_message_size is not called), nothing is published.
C15_ShortHeaderIsDisconnect ==
    [][(/\ tpc = "header"
        /\ tpc' # tpc
        /\ nread' - nread < HeaderLength
        /\ (Arrived # <<>> \/ peer # "open"))
       => /\ tpc' = "recover"
          /\ lastFetch' = "closed"
          /\ sock' = None
          /\ sockState'[sock] = "closed"
          /\ tPublished' = tPublished]_vars

\* The whole messages at the front of the stream st, in order.
RECURSIVE CompleteMessages(_)
CompleteMessages(st) ==
    IF Len(st) < HeaderLength THEN <<>>
    ELSE LET size == HeaderLength + st[HeaderLength] IN
         IF Len(st) < size THEN <<>>
         ELSE <<SubSeq(st, 1, size)>>
              \o CompleteMessages(SubSeq(st, size + 1, Len(st)))

\* C17: between two fetch steps, the items published from the connection
\* are the whole messages among the bytes read from it, one item each, in
\* order: a message of which the payload was not read to its end (stop was
\* requested, or the peer closed) has no item, and no item is a part of a
\* message.
C17_OnlyCompleteMessages ==
    tpc \notin {"payload", "recv", "publish"}
    => LET msgs == CompleteMessages(SubSeq(sent, 1, nread))
       IN PublishedOn(nconn) = [i \in 1..Len(msgs) |-> ExpectedItem(msgs[i])]

\* C17 witness: stop was requested when a part of a payload was read; the
\* fetch step has returned and nothing was published from the connection.
C17_Witness ==
    /\ lastFetch = "discarded"
    /\ tStopped
    /\ nread > HeaderLength
    /\ nread < HeaderLength + sent[HeaderLength]
    /\ PublishedOn(nconn) = <<>>

\* C18: initialize() comes to its loop with a listening socket bound once
\* (server) or a socket to connect (client), and the loop is left only
\* with a connection held or with the stop flag set: an accept or a connect
\* that fails is followed by the next one.
C18_InitializeRetries ==
    [][/\ (tpc = "init" /\ tpc' # tpc)
            => IF is_server
               THEN /\ tpc' = "accept"
                    /\ binds = 0 /\ binds' = 1
                    /\ sockState'[server_sock'] = "listening"
               ELSE /\ tpc' = "connect"
                    /\ sockState'[sock'] = "unconnected"
       /\ (tpc \in {"accept", "connect"} /\ tpc' # tpc)
            => /\ tpc' = "loop"
               /\ tStopped \/ (sock' # None /\ sockState'[sock'] = "connected")]_vars

\* C18 witness: the initialize() of a server has returned with a
\* connection, stop not requested.
C18_Witness ==
    /\ is_server
    /\ tpc = "loop"
    /\ lastFetch = "none"
    /\ nconn = 1
    /\ ConnectionHeld
    /\ binds = 1
    /\ ~tStopped

\* C19: when the read of the header times out (the peer is there and has
\* sent nothing), get_next_item returns True with nothing published and
\* the connection as it was, and run() tests the stop flag before it reads
\* again.
C19_HeaderTimeoutIsNoError ==
    [][/\ (tpc = "header" /\ tpc' # tpc /\ peer = "open" /\ Arrived = <<>>)
            => /\ tpc' = "loop"
               /\ lastFetch' = "timeout"
               /\ UNCHANGED <<sock, server_sock, sockState, nsock, nconn, peer,
                              sent, nread, tPublished>>
       /\ (lastFetch = "timeout" /\ tpc' # tpc)
            => /\ tpc = "loop"
               /\ tpc' = IF tStopped THEN "done" ELSE "header"]_vars

\* C19 witness: a read of the header has timed out on a connection from
\* which an item was published before; the connection is held.
C19_Witness ==
    /\ lastFetch = "timeout"
    /\ ConnectionHeld
    /\ peer = "open"
    /\ PublishedOn(nconn) # <<>>

(***************************************************************************)
(* More claims about the TCP node's send path, checked under SpecTcpSend.  *)
(***************************************************************************)

\* C16: nothing keeps the read loop from closing the connection between
\* the test and the write of a notify call.  A write whose test found a
\* connection held, and which comes after the read loop has closed that
\* connection, does not reach the peer: it raises AttributeError on None,
\* or OSError on the socket a client has created to connect again.
C16_WriteRacesDisconnect ==
    [][(/\ npc = "send"
        /\ npc' = "idle"
        /\ heldAtCheck
        /\ ~ConnectionHeld)
       => sendLog'[Len(sendLog')].result \in {"AttributeError", "OSError"}]_vars

\* C16 witness: a notify call found a connection held and its write met
\* the handle cleared by the read loop.
C16_Witness ==
    \E i \in 1..Len(sendLog) :
        sendLog[i].held /\ sendLog[i].result = "AttributeError"

(***************************************************************************)
(* Claims about the Active Queue Node's thread, checked under              *)
(* SpecQueueLive.                                                          *)
(***************************************************************************)

\* C20: once stop() was called on an Active Queue Node that was started,
\* the node's thread leaves its run loop in the end, whatever the queue
\* holds.
C20_QueueNodeStops ==
    (aqStopped /\ aqpc # "created") ~> (aqpc = "done")

\* C20 witness: the thread has left its loop after a stop request, with
\* items published and items left in the queue.
C20_Witness ==
    /\ aqpc = "done"
    /\ aqStopped
    /\ aqPublished # <<>>
    /\ queue # <<>>

(***************************************************************************)
(* Claims about the end of the TCP node's thread, checked under            *)
(* SpecTcpLive.                                                            *)
(***************************************************************************)

\* The thread of the TCP node has left run().
TcpExited == tpc \in {"done", "crashed"}

\* C21: once stop() was called on a started TCP node whose thread is not
\* inside the untimed read of the payload, the thread leaves run() in the
\* end, whatever the peer does or does not do; a thread inside that read
\* leaves it only when bytes have arrived or the peer has left, and then
\* leaves run() in the end too.
C21_TcpNodeStops ==
    /\ (tStopped /\ tpc \notin {"created", "recv"}) ~> TcpExited
    /\ (tStopped /\ tpc = "recv" /\ (Arrived # <<>> \/ peer # "open"))
          ~> TcpExited
    /\ [][(tpc = "recv" /\ tpc' # tpc)
            => (Arrived # <<>> \/ peer # "open")]_vars

\* C21 witness: the thread has left run() after a stop request, on a
\* connection whose peer is there and has sent nothing that was not read.
C21_Witness ==
    /\ tpc = "done"
    /\ tStopped
    /\ ConnectionHeld
    /\ peer = "open"
    /\ Arrived = <<>>

(***************************************************************************)
(* Claim about the executable sequence after add, remove and clear,        *)
(* checked under SpecGraph.                                                *)
(***************************************************************************)

\* C22: the executable sequence holds exactly the thread-owning nodes of
\* the node set, each once, in the order they were added; so no node that
\* was removed is started by execute() and no two nodes of the sequence
\* share a name.
C22_ExecutableMatchesNodes ==
    /\ executable_nodes = registered
    /\ Range(executable_nodes) = {n \in nodes : IsThread(n)}
    /\ \A n \in Range(executable_nodes) : Count(executable_nodes, n) = 1
    /\ \A i, j \in 1..Len(executable_nodes) :
          NameOf(executable_nodes[i]) = NameOf(executable_nodes[j]) => i = j

(***************************************************************************)
(* Claim about the order of delivery, checked under SpecDeliver.           *)
(***************************************************************************)

\* The items subscriber s has received from the node, in the order of the
\* notify calls.
Received(s) ==
    LET calls == SelectSeq(notifyLog, LAMBDA c : c[1] = s /\ c[2] = TheNode)
    IN  [i \in 1..Len(calls) |-> calls[i][3]]

InFetchStep == tpc \in {"header", "payload", "recv", "publish"}

\* C24: whenever the thread of the TCP node is inside get_next_item, as a
\* server or as a client, self.sock is a socket and that socket is
\* connected.
C24_FetchOnlyWithConnection == InFetchStep => ConnectionHeld

\* C24 witness: the thread enters get_next_item on its second connection
\* and stop() is requested at that point, after the test of the flag.
C24_Witness ==
    /\ tpc = "header"
    /\ header_bytes = <<>>
    /\ nconn = 2
    /\ tStopped
    /\ ConnectionHeld

(***************************************************************************)
(* Claim about the items of an Active Queue Node after stop(), checked     *)
(* under SpecQueue.                                                        *)
(***************************************************************************)

\* C25: once stop() has set the flag of an Active Queue Node, its thread
\* takes at most one more item from the queue and publishes at most one
\* more item, whatever the queue holds and whatever is enqueued later; when
\* the thread has ended nothing more is published and nothing leaves the
\* queue.
C25_AtMostOneAfterStop ==
    /\ [](aqStopped => /\ Dequeued <= aqAtStop.got + 1
                       /\ Len(aqPublished) <= aqAtStop.published + 1)
    /\ [][aqpc = "done" => /\ aqPublished' = aqPublished
                           /\ IsPrefix(queue, queue')]_vars

\* C25 witness: the thread has ended, it took and published one item after
\* the stop request, and the queue still holds items.
C25_Witness ==
    /\ aqpc = "done"
    /\ aqStopped
    /\ Dequeued = aqAtStop.got + 1
    /\ Len(aqPublished) = aqAtStop.published + 1
    /\ queue # <<>>

(***************************************************************************)
(* Claim about a subscriber that fails during the TCP node's publish,      *)
(* checked under SpecTcpDeliver.                                           *)
(***************************************************************************)

\* C26: when the notify of a subscriber raises ConnectionError during the
\* notify_all of get_next_item, the thread of the TCP node goes on: the
\* node's own socket is closed and self.sock is None, get_next_item
\* returns False, the subscribers after the failing one are not notified,
\* and the next step of run() is the reconnect of a client or the
\* re-accept of a server, in which nothing more is delivered.
C26_SubscriberErrorIsDisconnect ==
    /\ [][(tpc = "publish" /\ tpc' # tpc /\ delivery'.raised # 0)
            => /\ tpc' = "recover"
               /\ lastFetch' = "closed"
               /\ sock' = None
               /\ sockState'[sock] = "closed"
               /\ delivery'.notified = delivery'.raised - 1
               /\ delivery'.notified < NumTcpSubs]_vars
    /\ [][(tpc = "recover" /\ tpc' # tpc)
            => /\ tpc' = (IF is_server THEN "reaccept" ELSE "init")
               /\ tPublished' = tPublished]_vars

\* C26 witness: the first subscriber of the iteration raised, so no
\* subscriber has the item; get_next_item has closed the node's socket and
\* returned False, with the peer's next bytes unread.
C26_Witness ==
    /\ tpc = "recover"
    /\ delivery = [notified |-> 0, raised |-> 1]
    /\ lastFetch = "closed"
    /\ sock = None
    /\ tPublished # <<>>
    /\ Arrived # <<>>

====
